---------------------------- MODULE Spec2Model ----------------------------
(***************************************************************************)
(* A model of the Sudoku solver: the board types of src/board.rs and the   *)
(* propagation and search of src/solver.rs.                                *)
(*                                                                         *)
(* The source fixes N_BLOCK = 3 (a 9x9 board).  The model is written for   *)
(* any block size and is explored on the N_BLOCK = 2 instance (a 4x4       *)
(* board, digits 0..3), whose whole search trees can be enumerated.        *)
(***************************************************************************)
EXTENDS Integers, Sequences, FiniteSets

(* board.rs:6 sets 3; the model explores the instance of 2x2 blocks. *)
N_BLOCK == 2

(* board.rs:9 *)
N == N_BLOCK * N_BLOCK

(* The inputs: the grid without clues, and grids that keep every m-th clue  *)
(* of a solved grid, for the first MaxSpacing odd m, with the first         *)
(* MaxWindow cells of WindowCells set freely.                               *)
MaxWindow == 3

MaxSpacing == 3

Idx == 0..(N - 1)

(*************************** board.rs: Option ****************************)
None == <<>>

Some(n) == <<n>>

(*********************** board.rs: PossibilitySet ************************)
FULL == [n \in Idx |-> TRUE]

(* PossibilitySet::unique(n); the source panics when n >= N. *)
unique(n) == [m \in Idx |-> m = n]

ps_count(ps) == Cardinality({n \in Idx : ps[n]})

(* The scan of get_unique: the first set digit, None on a second one. *)
RECURSIVE ps_get_unique_from(_, _, _)
ps_get_unique_from(ps, n, u) ==
  IF n = N THEN u
  ELSE IF ps[n]
       THEN IF u = None THEN ps_get_unique_from(ps, n + 1, Some(n)) ELSE None
       ELSE ps_get_unique_from(ps, n + 1, u)

ps_get_unique(ps) == ps_get_unique_from(ps, 0, None)

(* Mutant: iter() yields every digit, contained or not. *)
ps_iter_all(ps) == [n \in 1..N |-> n - 1]

(* iter(): the contained digits, in the order of the enumeration. *)
RECURSIVE ps_iter_from(_, _)
ps_iter_from(ps, n) ==
  IF n = N THEN <<>>
  ELSE (IF ps[n] THEN <<n>> ELSE <<>>) \o ps_iter_from(ps, n + 1)

ps_iter(ps) == ps_iter_from(ps, 0)

(************************* board.rs: SolvingCell *************************)
new(v) ==
  IF v = None
  THEN [value |-> FULL, update |-> FALSE, unique |-> FALSE]
  ELSE [value |-> unique(v[1]), update |-> TRUE, unique |-> TRUE]

has_update(c) == c.update

can_be(c, n) == c.value[n]

get_unique(c) == ps_get_unique(c.value)

count(c) == ps_count(c.value)

iter(c) == ps_iter(c.value)

(* Mutant: remove reports a change although n was already absent. *)
remove_always_true(c, n) ==
  [cell |-> [c EXCEPT !.value[n] = FALSE, !.update = c.update \/ c.value[n]],
   removed |-> TRUE]

(* Mutant: remove forgets to set the pending-update flag. *)
remove_no_flag(c, n) ==
  IF c.value[n]
  THEN [cell |-> [c EXCEPT !.value[n] = FALSE], removed |-> TRUE]
  ELSE [cell |-> c, removed |-> FALSE]

(* remove: the cell afterwards and the returned flag. *)
remove(c, n) ==
  IF c.value[n]
  THEN [cell |-> [c EXCEPT !.value[n] = FALSE, !.update = TRUE], removed |-> TRUE]
  ELSE [cell |-> c, removed |-> FALSE]

(**************************** board.rs: Board ****************************)
to_solution(b) ==
  IF \A i \in Idx : \A j \in Idx : get_unique(b[i][j]) # None
  THEN Some([i \in Idx |-> [j \in Idx |-> get_unique(b[i][j])[1]]])
  ELSE None

(************************ solver.rs: propagation *************************)
(* The state threaded through one sweep pass: the board, the pass's        *)
(* has_update accumulator, and ok = no debug_assert_eq has failed.         *)

(* "make it unique": the match on get_unique of the found cell. *)
make_unique(st, i, j, n) ==
  LET u == get_unique(st.board[i][j]) IN
  IF u = None
  THEN [st EXCEPT !.board[i][j] = new(Some(n)), !.has_update = TRUE]
  ELSE [st EXCEPT !.ok = st.ok /\ (n = u[1])]

(* Mutant: without `continue 'n`, the first cell that can be n is made unique. *)
examine_row_digit_first(st, i, n) ==
  LET found == {j \in Idx : can_be(st.board[i][j], n)} IN
  IF found # {}
  THEN make_unique(st, i, CHOOSE j \in found : \A j2 \in found : j <= j2, n)
  ELSE st

(* The body of examine_row's loop for digit n. *)
examine_row_digit(st, i, n) ==
  LET found == {j \in Idx : can_be(st.board[i][j], n)} IN
  IF Cardinality(found) = 1
  THEN make_unique(st, i, CHOOSE j \in found : TRUE, n)
  ELSE st

(* Mutant: the found cell is addressed with its indices exchanged. *)
examine_col_digit_swapped(st, j, n) ==
  LET found == {i \in Idx : can_be(st.board[i][j], n)} IN
  IF Cardinality(found) = 1
  THEN make_unique(st, j, CHOOSE i \in found : TRUE, n)
  ELSE st

(* The body of examine_col's loop for digit n. *)
examine_col_digit(st, j, n) ==
  LET found == {i \in Idx : can_be(st.board[i][j], n)} IN
  IF Cardinality(found) = 1
  THEN make_unique(st, CHOOSE i \in found : TRUE, j, n)
  ELSE st

(* Mutant: without `continue 'n`, the first cell of the block that can be n is made unique. *)
examine_block_digit_first(st, i, j, n) ==
  LET found == {c \in (i..(i + N_BLOCK - 1)) \X (j..(j + N_BLOCK - 1)) :
                  can_be(st.board[c[1]][c[2]], n)} IN
  IF found # {}
  THEN LET c == CHOOSE c \in found :
                  \A c2 \in found : N * c[1] + c[2] <= N * c2[1] + c2[2]
       IN make_unique(st, c[1], c[2], n)
  ELSE st

(* The body of examine_block's loop for digit n; (i, j) is the block's origin. *)
examine_block_digit(st, i, j, n) ==
  LET found == {c \in (i..(i + N_BLOCK - 1)) \X (j..(j + N_BLOCK - 1)) :
                  can_be(st.board[c[1]][c[2]], n)} IN
  IF Cardinality(found) = 1
  THEN LET c == CHOOSE c \in found : TRUE IN make_unique(st, c[1], c[2], n)
  ELSE st

(* `has_update |= board.0[i2][j2].remove(n)` on the pair r = (board, has_update). *)
remove_at(r, i2, j2, n) ==
  LET x == remove(r.board[i2][j2], n) IN
  [board |-> [r.board EXCEPT ![i2][j2] = x.cell],
   has_update |-> r.has_update \/ x.removed]

(* filter_row's loop from j2 on. *)
RECURSIVE filter_row_from(_, _, _, _, _)
filter_row_from(r, i, j, n, j2) ==
  IF j2 = N THEN r
  ELSE IF j # j2
       THEN filter_row_from(remove_at(r, i, j2, n), i, j, n, j2 + 1)
       ELSE filter_row_from(r, i, j, n, j2 + 1)

filter_row(b, i, j, n) ==
  filter_row_from([board |-> b, has_update |-> FALSE], i, j, n, 0)

(* filter_col's loop from i2 on. *)
RECURSIVE filter_col_from(_, _, _, _, _)
filter_col_from(r, i, j, n, i2) ==
  IF i2 = N THEN r
  ELSE IF i # i2
       THEN filter_col_from(remove_at(r, i2, j, n), i, j, n, i2 + 1)
       ELSE filter_col_from(r, i, j, n, i2 + 1)

filter_col(b, i, j, n) ==
  filter_col_from([board |-> b, has_update |-> FALSE], i, j, n, 0)

(* filter_block's two loops, from the t-th cell of the block on (row-major). *)
RECURSIVE filter_block_from(_, _, _, _, _)
filter_block_from(r, i, j, n, t) ==
  LET top == (i \div N_BLOCK) * N_BLOCK
      left == (j \div N_BLOCK) * N_BLOCK
      i2 == top + (t \div N_BLOCK)
      j2 == left + (t % N_BLOCK)
  IN IF t = N THEN r
     ELSE IF i # i2 /\ j # j2
          THEN filter_block_from(remove_at(r, i2, j2, n), i, j, n, t + 1)
          ELSE filter_block_from(r, i, j, n, t + 1)

filter_block(b, i, j, n) ==
  filter_block_from([board |-> b, has_update |-> FALSE], i, j, n, 0)

(* Mutant: examine_cell leaves out filter_block. *)
examine_cell_no_block(st, i, j) ==
  IF ~has_update(st.board[i][j]) THEN st
  ELSE LET u == get_unique(st.board[i][j]) IN
       IF u = None THEN st
       ELSE LET r == filter_row(st.board, i, j, u[1])
                c == filter_col(r.board, i, j, u[1])
            IN [st EXCEPT !.board = c.board,
                          !.has_update = st.has_update \/ r.has_update \/ c.has_update]

examine_cell(st, i, j) ==
  IF ~has_update(st.board[i][j]) THEN st
  ELSE LET u == get_unique(st.board[i][j]) IN
       IF u = None THEN st
       ELSE LET r == filter_row(st.board, i, j, u[1])
                c == filter_col(r.board, i, j, u[1])
                k == filter_block(c.board, i, j, u[1])
            IN [st EXCEPT !.board = k.board,
                          !.has_update = st.has_update \/ r.has_update
                                           \/ c.has_update \/ k.has_update]

(* examine_row: `'n: for n in 0..N`, from digit n on. *)
RECURSIVE examine_row_from(_, _, _)
examine_row_from(st, i, n) ==
  IF n = N \/ ~st.ok THEN st
  ELSE examine_row_from(examine_row_digit(st, i, n), i, n + 1)

examine_row(st, i) == examine_row_from(st, i, 0)

RECURSIVE examine_col_from(_, _, _)
examine_col_from(st, j, n) ==
  IF n = N \/ ~st.ok THEN st
  ELSE examine_col_from(examine_col_digit(st, j, n), j, n + 1)

examine_col(st, j) == examine_col_from(st, j, 0)

RECURSIVE examine_block_from(_, _, _, _)
examine_block_from(st, i, j, n) ==
  IF n = N \/ ~st.ok THEN st
  ELSE examine_block_from(examine_block_digit(st, i, j, n), i, j, n + 1)

examine_block(st, i, j) == examine_block_from(st, i, j, 0)

(* sweep's four loops, each from its x-th iteration on; a failed               *)
(* debug_assert_eq panics, and the pass stops there.                           *)
RECURSIVE sweep_rows(_, _)
sweep_rows(st, i) ==
  IF i = N \/ ~st.ok THEN st ELSE sweep_rows(examine_row(st, i), i + 1)

RECURSIVE sweep_cols(_, _)
sweep_cols(st, j) ==
  IF j = N \/ ~st.ok THEN st ELSE sweep_cols(examine_col(st, j), j + 1)

RECURSIVE sweep_blocks(_, _)
sweep_blocks(st, x) ==
  IF x = N \/ ~st.ok THEN st
  ELSE sweep_blocks(examine_block(st, (x \div N_BLOCK) * N_BLOCK, (x % N_BLOCK) * N_BLOCK),
                    x + 1)

RECURSIVE sweep_cells(_, _)
sweep_cells(st, k) ==
  IF k = N * N THEN st ELSE sweep_cells(examine_cell(st, k \div N, k % N), k + 1)

(* One pass: the board as sweep leaves it, the flag it returns, and ok. *)
sweep(b) ==
  sweep_cells(sweep_blocks(sweep_cols(sweep_rows(
    [board |-> b, has_update |-> FALSE, ok |-> TRUE], 0), 0), 0), 0)

(*************************** solver.rs: search ***************************)
(* Mutant: the key does not set cells of count 1 aside. *)
case_key_plain(b, k) == count(b[k \div N][k % N])

(* min_by_key's key of cell k. *)
case_key(b, k) ==
  LET c == count(b[k \div N][k % N]) IN IF c = 1 THEN N + 1 ELSE c

(* Mutant: the last of the equally minimum elements. *)
case_select_last(b) ==
  CHOOSE k \in 0..(N * N - 1) :
    \A k2 \in 0..(N * N - 1) :
      \/ case_key(b, k) < case_key(b, k2)
      \/ case_key(b, k) = case_key(b, k2) /\ k >= k2

(* min_by_key over 0..N*N: the first element among the equally minimum ones. *)
case_select(b) ==
  CHOOSE k \in 0..(N * N - 1) :
    \A k2 \in 0..(N * N - 1) :
      \/ case_key(b, k) < case_key(b, k2)
      \/ case_key(b, k) = case_key(b, k2) /\ k <= k2

(* Mutant: the guessed cell is addressed with its indices exchanged. *)
guess_swapped(b, k, n) == [b EXCEPT ![k % N][k \div N] = new(Some(n))]

(* board2 of case_analysis's loop body. *)
guess(b, k, n) == [b EXCEPT ![k \div N][k % N] = new(Some(n))]

(* for_each_solution's conversion of the problem. *)
solving_board(p) == [i \in Idx |-> [j \in Idx |-> new(p[i][j])]]

(******************************* inputs **********************************)
(* The input grids explored: Board<Option<usize>> values, as main.rs's     *)
(* read_problem builds them.                                               *)
NoClues == [i \in Idx |-> [j \in Idx |-> None]]

(* A solved grid, for every block size. *)
Base == [i \in Idx |-> [j \in Idx |->
           (N_BLOCK * (i % N_BLOCK) + (i \div N_BLOCK) + j) % N]]

(* The clues of Base at every m-th cell in row-major order. *)
Spaced(m) == [i \in Idx |-> [j \in Idx |->
                IF (N * i + j) % m = 0 THEN Some(Base[i][j]) ELSE None]]

(* Backgrounds of odd spacing: the solved grid, then ever sparser clues. *)
Backgrounds == {Spaced(2 * m - 1) : m \in 1..MaxSpacing}

(* The cells set freely: pairs of them share a row, a column, a block. *)
WindowCells == << <<0, 0>>, <<0, 2>>, <<2, 0>>, <<1, 1>>, <<3, 3>>, <<1, 2>> >>

RECURSIVE Overlay(_, _, _)
Overlay(p, w, s) ==
  IF s > Len(w) THEN p
  ELSE Overlay([p EXCEPT ![WindowCells[s][1]][WindowCells[s][2]] = w[s]], w, s + 1)

(* What the window cells are set to: no clue, or any digit. *)
Windows == [1..MaxWindow -> {None} \cup {Some(n) : n \in Idx}]

(**************************** state machine ******************************)
VARIABLES problem, board, pc, stack, emitted

vars == <<problem, board, pc, stack, emitted>>

Top == stack[Len(stack)]

Init ==
  /\ \/ problem = NoClues
     \/ \E bg \in Backgrounds : \E w \in Windows : problem = Overlay(bg, w, 1)
  /\ board = solving_board(problem)
  /\ pc = "solve"
  /\ stack = <<>>
  /\ emitted = <<>>

(* solve returns to the loop of the calling case_analysis, or for_each_solution returns. *)
Return(stk) ==
  IF stk = <<>>
  THEN pc' = "done" /\ UNCHANGED board
  ELSE pc' = "case" /\ board' = stk[Len(stk)].board

(* One pass of `while sweep(&mut board) {}`. *)
Sweep ==
  /\ pc = "solve"
  /\ LET r == sweep(board) IN
       /\ board' = r.board
       /\ pc' = IF ~r.ok THEN "panic" ELSE IF r.has_update THEN "solve" ELSE "swept"
  /\ UNCHANGED <<problem, stack, emitted>>

(* to_solution is Some: f(solution); return. *)
Report ==
  /\ pc = "swept"
  /\ to_solution(board) # None
  /\ emitted' = Append(emitted, to_solution(board)[1])
  /\ Return(stack)
  /\ UNCHANGED <<problem, stack>>

(* to_solution is None: case_analysis is entered and selects its cell. *)
CaseAnalysis ==
  /\ pc = "swept"
  /\ to_solution(board) = None
  /\ LET k == case_select(board) IN
       stack' = Append(stack, [board |-> board, k |-> k,
                               rest |-> iter(board[k \div N][k % N]),
                               tried |-> <<>>])
  /\ pc' = "case"
  /\ UNCHANGED <<problem, board, emitted>>

(* One iteration of case_analysis's loop: board2, assert_ne!, solve(board2, f). *)
Guess ==
  /\ pc = "case"
  /\ Top.rest # <<>>
  /\ LET n == Head(Top.rest)
         board2 == guess(Top.board, Top.k, n)
     IN /\ board' = board2
        /\ pc' = IF Top.board = board2 THEN "panic" ELSE "solve"
        /\ stack' = [stack EXCEPT ![Len(stack)].rest = Tail(Top.rest),
                                  ![Len(stack)].tried = Append(Top.tried, n)]
  /\ UNCHANGED <<problem, emitted>>

(* case_analysis's loop is exhausted: it returns, and so does the solve that called it. *)
EndCase ==
  /\ pc = "case"
  /\ Top.rest = <<>>
  /\ stack' = SubSeq(stack, 1, Len(stack) - 1)
  /\ Return(stack')
  /\ UNCHANGED <<problem, emitted>>

Next == Sweep \/ Report \/ CaseAnalysis \/ Guess \/ EndCase

Spec == Init /\ [][Next]_vars


(**************************** board.rs: units ****************************)
Cells == Idx \X Idx

row_iter(i) == {<<i, j>> : j \in Idx}

col_iter(j) == {<<i, j>> : i \in Idx}

(* (i, j) is the block's origin: multiples of N_BLOCK. *)
block_iter(i, j) == {<<i + (n \div N_BLOCK), j + (n % N_BLOCK)>> : n \in Idx}

Origins == {N_BLOCK * x : x \in 0..(N_BLOCK - 1)}

Units == {row_iter(i) : i \in Idx} \cup {col_iter(j) : j \in Idx}
           \cup {block_iter(i, j) : i \in Origins, j \in Origins}

(* c and c2 are different cells of one row, one column or one block. *)
SameUnit(c, c2) ==
  /\ c # c2
  /\ \/ c[1] = c2[1]
     \/ c[2] = c2[2]
     \/ /\ c[1] \div N_BLOCK = c2[1] \div N_BLOCK
        /\ c[2] \div N_BLOCK = c2[2] \div N_BLOCK

(************************** what a solution is ***************************)
(* g, a grid of digits, has each digit exactly once in every unit and      *)
(* agrees with the clues of p.                                             *)
IsCompletion(g, p) ==
  /\ \A u \in Units : \A n \in Idx :
       Cardinality({c \in u : g[c[1]][c[2]] = n}) = 1
  /\ \A c \in Cells : p[c[1]][c[2]] # None => g[c[1]][c[2]] = p[c[1]][c[2]][1]

(* Digit d may follow the digits g of the first Len(g) cells (row-major). *)
Fits(p, g, d) ==
  LET c == <<Len(g) \div N, Len(g) % N>> IN
  /\ p[c[1]][c[2]] \in {None, Some(d)}
  /\ \A x \in 1..Len(g) :
       SameUnit(c, <<(x - 1) \div N, (x - 1) % N>>) => g[x] # d

(* Every way of filling the cells from the k-th on, by plain enumeration. *)
RECURSIVE Fill(_, _, _)
Fill(p, S, k) ==
  IF k = N * N THEN S
  ELSE Fill(p, UNION {{Append(g, d) : d \in {d \in Idx : Fits(p, g, d)}} : g \in S}, k + 1)

(* The valid completions of p. *)
Completions(p) ==
  {g \in {[i \in Idx |-> [j \in Idx |-> f[N * i + j + 1]]] : f \in Fill(p, {<<>>}, 0)} :
     IsCompletion(g, p)}

Range(f) == {f[x] : x \in DOMAIN f}

Total(b) == LET SumCells[k \in 0..(N * N)] ==
                  IF k = 0 THEN 0 ELSE SumCells[k - 1] + count(b[(k - 1) \div N][(k - 1) % N])
            IN SumCells[N * N]

(* Every possibility of b2 is a possibility of b1, cell by cell. *)
Shrinks(b1, b2) ==
  \A c \in Cells : \A n \in Idx : b2[c[1]][c[2]].value[n] => b1[c[1]][c[2]].value[n]

Unfilled(p) == Cardinality({c \in Cells : p[c[1]][c[2]] = None})

Selected(f) == f.board[f.k \div N][f.k % N]

(**************************** a pass, step by step ***********************)
(* The steps of one sweep pass in the order sweep takes them: for every    *)
(* row, column and block the examination for each digit, then every cell.  *)
RowSteps == [s \in 1..(N * N) |->
               [kind |-> "row", i |-> (s - 1) \div N, j |-> 0, n |-> (s - 1) % N]]

ColSteps == [s \in 1..(N * N) |->
               [kind |-> "col", i |-> 0, j |-> (s - 1) \div N, n |-> (s - 1) % N]]

BlockSteps == [s \in 1..(N * N) |->
                 [kind |-> "block",
                  i |-> (((s - 1) \div N) \div N_BLOCK) * N_BLOCK,
                  j |-> (((s - 1) \div N) % N_BLOCK) * N_BLOCK,
                  n |-> (s - 1) % N]]

CellSteps == [s \in 1..(N * N) |->
                [kind |-> "cell", i |-> (s - 1) \div N, j |-> (s - 1) % N, n |-> 0]]

SweepSteps == RowSteps \o ColSteps \o BlockSteps \o CellSteps

ApplyStep(st, s) ==
  CASE s.kind = "row" -> examine_row_digit(st, s.i, s.n)
    [] s.kind = "col" -> examine_col_digit(st, s.j, s.n)
    [] s.kind = "block" -> examine_block_digit(st, s.i, s.j, s.n)
    [] s.kind = "cell" -> examine_cell(st, s.i, s.j)

(* SweepTrace(b)[s + 1] is the pass's state after its first s steps. *)
RECURSIVE SweepFrom(_, _)
SweepFrom(st, s) ==
  IF s > Len(SweepSteps) THEN <<st>>
  ELSE <<st>> \o SweepFrom(ApplyStep(st, SweepSteps[s]), s + 1)

SweepTrace(b) == SweepFrom([board |-> b, has_update |-> FALSE, ok |-> TRUE], 1)

(******************************** claims *********************************)

(* C1: every grid handed to the callback is a valid Sudoku solution (each  *)
(* digit exactly once in every row, column and block) that keeps every     *)
(* clue of the input.  Every emitted grid is the last one when emitted.    *)
C1_EmittedGridsAreSolutions ==
  /\ (pc = "swept" /\ to_solution(board) # None)
       => IsCompletion(to_solution(board)[1], problem)
  /\ emitted # <<>> => IsCompletion(emitted[Len(emitted)], problem)

C1_Witness ==
  /\ Len(emitted) >= 2
  /\ Len(stack) >= 1
  /\ Unfilled(problem) < N * N

(* C2: when for_each_solution returns, the callback has been invoked       *)
(* exactly once for each valid completion of the input: none missed, none  *)
(* reported twice.                                                         *)
C2_ExactlyTheCompletions ==
  pc = "done" =>
    /\ Range(emitted) = Completions(problem)
    /\ Len(emitted) = Cardinality(Completions(problem))

C2_Witness ==
  /\ pc = "done"
  /\ Len(emitted) >= 2
  /\ Unfilled(problem) < N * N

(* C3: a sweep pass that returns true leaves the total number of           *)
(* possibilities strictly smaller, and a pass that changes nothing returns *)
(* false, so the loop `while sweep(&mut board) {}` terminates.             *)
C3_ProductivePassShrinks ==
  pc = "solve" =>
    LET r == sweep(board) IN
    /\ r.has_update => Total(r.board) < Total(board)
    /\ r.board = board => ~r.has_update

C3_Witness ==
  /\ pc = "solve"
  /\ Len(stack) >= 1
  /\ sweep(board).has_update
  /\ ~sweep(sweep(board).board).has_update

(* C4: possibility sets only shrink: across every step of a sweep pass     *)
(* (unit examinations included), across every guess, and from every        *)
(* ancestor of the search to the current board.                            *)
C4_SetsOnlyShrink ==
  /\ pc = "solve" =>
       LET t == SweepTrace(board) IN
       /\ t[Len(t)] = sweep(board)
       /\ \A s \in 1..(Len(t) - 1) : Shrinks(t[s].board, t[s + 1].board)
  /\ (pc = "case" /\ Top.rest # <<>>) =>
       Shrinks(Top.board, guess(Top.board, Top.k, Head(Top.rest)))
  /\ \A x \in 1..Len(stack) : Shrinks(stack[x].board, board)
  /\ Shrinks(solving_board(problem), board)

C4_Witness ==
  /\ pc = "solve"
  /\ Len(stack) >= 1
  /\ LET t == SweepTrace(board) IN
       \E s \in 1..Len(SweepSteps) :
         /\ SweepSteps[s].kind # "cell"
         /\ t[s].board # t[s + 1].board

(* The progress of the search: for every case_analysis in progress the     *)
(* number of digits it has left to try (plus one), then the progress of    *)
(* the innermost solve: the possibilities left while it sweeps.  Ranks are *)
(* compared as sequences, the absent elements being 0.                     *)
Rank ==
  [x \in 1..Len(stack) |-> Len(stack[x].rest) + 1]
    \o << CASE pc = "solve" -> N + 3 + Total(board)
           [] pc = "swept" -> N + 2
           [] OTHER -> 0 >>

At(r, x) == IF x <= Len(r) THEN r[x] ELSE 0

LexLess(r1, r2) ==
  \E x \in 1..(Len(r1) + Len(r2)) :
    /\ At(r1, x) < At(r2, x)
    /\ \A y \in 1..(x - 1) : At(r1, y) = At(r2, y)

(* C5: the nesting depth of the solve calls made through case_analysis     *)
(* never exceeds the number of cells without a clue, and for_each_solution *)
(* returns: until it has, a step can be taken (a sweep pass; a report or a *)
(* case analysis; a guess or the end of the guesses), every step changes   *)
(* the state, and every step lowers Rank, a sequence of at most            *)
(* Unfilled(problem) + 2 numbers below N + 4 + N * N * N.                  *)
C5_Inv ==
  /\ pc \in {"solve", "swept"} => Len(stack) <= Unfilled(problem)
  /\ Len(stack) <= Unfilled(problem) + 1
  /\ pc \in {"solve", "swept", "case", "done"}
  /\ pc = "case" => stack # <<>>
  /\ pc = "done" => stack = <<>>
  /\ pc = "solve" => (sweep(board).has_update => sweep(board).board # board)

C5_DepthBoundedAndReturns == []C5_Inv /\ [][LexLess(Rank', Rank)]_vars

C5_Witness ==
  /\ pc = "solve"
  /\ Len(stack) >= 3
  /\ Len(stack) < Unfilled(problem)

(* c loses exactly digit n, the sole possibility of another cell of one of *)
(* its units that has a pending update.                                    *)
NakedSingle(b1, b2, c) ==
  \E n \in Idx :
    /\ b1[c[1]][c[2]].value[n]
    /\ b2[c[1]][c[2]].value = [b1[c[1]][c[2]].value EXCEPT ![n] = FALSE]
    /\ \E c2 \in Cells :
         /\ SameUnit(c, c2)
         /\ has_update(b1[c2[1]][c2[2]])
         /\ b1[c2[1]][c2[2]].value = unique(n)

StepUnit(s) ==
  CASE s.kind = "row" -> row_iter(s.i)
    [] s.kind = "col" -> col_iter(s.j)
    [] s.kind = "block" -> block_iter(s.i, s.j)
    [] s.kind = "cell" -> {}

(* c is narrowed to {n} by the examination of a unit in which no other     *)
(* cell can hold n.                                                        *)
HiddenSingle(b1, b2, c, s) ==
  /\ c \in StepUnit(s)
  /\ b1[c[1]][c[2]].value[s.n]
  /\ b2[c[1]][c[2]].value = unique(s.n)
  /\ \A c2 \in StepUnit(s) \ {c} : ~b1[c2[1]][c2[2]].value[s.n]

(* C6, as claimed: every change a sweep pass makes to a possibility set is *)
(* a naked-single elimination.                                             *)
C6_OnlyNakedSingles ==
  pc = "solve" =>
    LET t == SweepTrace(board) IN
    \A s \in 1..Len(SweepSteps) : \A c \in Cells :
      t[s].board[c[1]][c[2]].value # t[s + 1].board[c[1]][c[2]].value
        => NakedSingle(t[s].board, t[s + 1].board, c)

(* C6, amended: every change a sweep pass makes to a possibility set is a  *)
(* naked-single elimination or the narrowing of a cell to {n} by a unit    *)
(* examination that found it the only cell of the unit able to hold n.     *)
C6_NakedOrHiddenSingles ==
  pc = "solve" =>
    LET t == SweepTrace(board) IN
    /\ t[Len(t)] = sweep(board)
    /\ \A s \in 1..Len(SweepSteps) : \A c \in Cells :
         t[s].board[c[1]][c[2]].value # t[s + 1].board[c[1]][c[2]].value
           => \/ NakedSingle(t[s].board, t[s + 1].board, c)
              \/ HiddenSingle(t[s].board, t[s + 1].board, c, SweepSteps[s])

C6_Witness ==
  /\ pc = "solve"
  /\ Len(stack) >= 1
  /\ LET t == SweepTrace(board) IN
       /\ \E s \in 1..Len(SweepSteps) : \E c \in Cells :
            /\ t[s].board[c[1]][c[2]].value # t[s + 1].board[c[1]][c[2]].value
            /\ HiddenSingle(t[s].board, t[s + 1].board, c, SweepSteps[s])
       /\ \E s \in 1..Len(SweepSteps) : \E c \in Cells :
            /\ t[s].board[c[1]][c[2]].value # t[s + 1].board[c[1]][c[2]].value
            /\ NakedSingle(t[s].board, t[s + 1].board, c)

(* C7: when the propagation loop exits, no cell shares a unit with a       *)
(* singleton cell {n} and still has n as a possibility; and a singleton    *)
(* cell always has its pending-update flag set.                            *)
C7_FixedPointIsPropagated ==
  /\ pc = "swept" =>
       \A c \in Cells : \A c2 \in Cells :
         (get_unique(board[c[1]][c[2]]) # None /\ SameUnit(c, c2))
           => ~can_be(board[c2[1]][c2[2]], get_unique(board[c[1]][c[2]])[1])
  /\ \A c \in Cells :
       count(board[c[1]][c[2]]) = 1 => has_update(board[c[1]][c[2]])

C7_Witness ==
  /\ pc = "swept"
  /\ to_solution(board) = None
  /\ \E c \in Cells : count(board[c[1]][c[2]]) = 1 /\ ~board[c[1]][c[2]].unique
  /\ \E c \in Cells : count(board[c[1]][c[2]]) = 0

(* C8, as claimed: the cell case_analysis selects has between 2 and N      *)
(* possibilities, and it makes that many recursive solve calls.            *)
C8_BranchingTwoToN ==
  pc = "case" =>
    /\ count(Selected(Top)) \in 2..N
    /\ Len(Top.tried) + Len(Top.rest) = count(Selected(Top))

(* C8, amended: the cell case_analysis selects has no possibility at all   *)
(* (a contradictory grid) or between 2 and N of them, and case_analysis    *)
(* makes as many recursive solve calls as the cell has possibilities.      *)
C8_BranchingZeroOrTwoToN ==
  pc = "case" =>
    /\ count(Selected(Top)) \in {0} \cup 2..N
    /\ Len(Top.tried) + Len(Top.rest) = count(Selected(Top))

C8_Witness ==
  /\ pc = "case"
  /\ Len(stack) >= 2
  /\ count(Selected(Top)) = 0
  /\ Top.tried = <<>> /\ Top.rest = <<>>

(* The cells of b whose possibility count is not 1. *)
Open(b) == {k \in 0..(N * N - 1) : count(b[k \div N][k % N]) # 1}

(* C9: case_analysis selects, among the cells whose count is not 1, one    *)
(* with the smallest count, the first such in row-major order; it tries    *)
(* the cell's digits in ascending order, each on a copy of the grid that   *)
(* differs from the parent grid at the selected cell only, and no grid of  *)
(* a caller is changed.                                                    *)
C9_Inv ==
  pc = "case" =>
    LET b == Top.board
        ds == Top.tried \o Top.rest
    IN /\ Top.k \in Open(b)
       /\ \A k2 \in Open(b) :
            \/ count(Selected(Top)) < count(b[k2 \div N][k2 % N])
            \/ count(Selected(Top)) = count(b[k2 \div N][k2 % N]) /\ Top.k <= k2
       /\ Range(ds) = {n \in Idx : can_be(Selected(Top), n)}
       /\ \A x \in 1..(Len(ds) - 1) : ds[x] < ds[x + 1]

C9_Step ==
  /\ \A x \in 1..Len(stack) :
       x <= Len(stack') => stack'[x].board = stack[x].board /\ stack'[x].k = stack[x].k
  /\ (pc = "case" /\ pc' = "solve") =>
       /\ Top.rest # <<>>
       /\ get_unique(board'[Top.k \div N][Top.k % N]) = Some(Head(Top.rest))
       /\ \A c \in Cells :
            c # <<Top.k \div N, Top.k % N>> => board'[c[1]][c[2]] = Top.board[c[1]][c[2]]

C9_SelectionAndBranches == []C9_Inv /\ [][C9_Step]_vars

C9_Witness ==
  /\ pc = "case"
  /\ Len(Top.tried) >= 2
  /\ Top.rest # <<>>
  /\ \E k2 \in Open(Top.board) :
       k2 > Top.k /\ count(Top.board[k2 \div N][k2 % N]) = count(Selected(Top))
  /\ \E k2 \in 0..(N * N - 1) : k2 < Top.k /\ k2 \notin Open(Top.board)

(* C10: no assertion of the solver fails: assert_ne!(board, board2) in     *)
(* case_analysis and debug_assert_eq!(n, n2) in the unit examinations.     *)
C10_NoAssertionFails ==
  /\ pc # "panic"
  /\ pc = "solve" => sweep(board).ok
  /\ (pc = "case" /\ Top.rest # <<>>) => guess(Top.board, Top.k, Head(Top.rest)) # Top.board

(* Below a guess (whose assert_ne! has passed), a contradictory grid in     *)
(* which a unit examination finds an already unique cell.                  *)
C10_Witness ==
  /\ pc = "solve"
  /\ Len(stack) >= 1
  /\ \E c \in Cells : count(board[c[1]][c[2]]) = 0
  /\ \E u \in Units : \E n \in Idx : \E c \in u :
       /\ get_unique(board[c[1]][c[2]]) = Some(n)
       /\ \A c2 \in u \ {c} : ~can_be(board[c2[1]][c2[2]], n)

============================================================================
